---- MODULE Spec2Model ----
(***************************************************************************)
(* A model of mono/metadata/image.c: the PE/CLI image parser               *)
(* (do_mono_image_load and its helpers) and the process-wide registry of   *)
(* open images (mono_image_open_full, register_image, mono_image_close).   *)
(*                                                                         *)
(* Spec      threads running the registry operations, one step per atomic  *)
(*           access or critical section of the C code                      *)
(* SeqSpec   the same operations, each call running to its return before   *)
(*           the next call starts                                          *)
(* OpenSpec  the threads only open images; no caller closes or addrefs     *)
(* ParseSpec do_mono_image_load applied to a bounded set of PE inputs      *)
(***************************************************************************)
EXTENDS Integers, Sequences, FiniteSets, TLC

(***************************************************************************)
(* Bounds of the model.                                                    *)
(***************************************************************************)
NThreads == 2
MaxImages == 3
MaxRefs == 2

NULL == 0
Threads == 1..NThreads

(***************************************************************************)
(* guint32 arithmetic.  A guint32 is held as two 16-bit halves so that     *)
(* sums wrap at 2^32 exactly as in C.                                      *)
(***************************************************************************)
Half == 65536

U32(h, l) == [hi |-> h, lo |-> l]
Small(n) == [hi |-> 0, lo |-> n]

\* a + b in guint32 arithmetic (wraps modulo 2^32)
Add32(a, b) ==
  LET l == a.lo + b.lo
      h == a.hi + b.hi + (l \div Half)
  IN  [hi |-> h % Half, lo |-> l % Half]

\* 1 when the exact sum a + b does not fit 32 bits
Carry32(a, b) == (a.hi + b.hi + ((a.lo + b.lo) \div Half)) \div Half

\* a - b in guint32 arithmetic (wraps modulo 2^32)
Sub32(a, b) ==
  LET borrow == IF a.lo < b.lo THEN 1 ELSE 0
  IN  [hi |-> (a.hi - b.hi - borrow + Half) % Half,
       lo |-> (a.lo - b.lo + Half) % Half]

Lt32(a, b) == a.hi < b.hi \/ (a.hi = b.hi /\ a.lo < b.lo)
Le32(a, b) == a = b \/ Lt32(a, b)

\* the exact (unbounded) comparison a + b > c
ExactSumGt(a, b, c) == Carry32(a, b) = 1 \/ Lt32(c, Add32(a, b))

\* `a + b > len' where both operands are guint32: the sum wraps at 32 bits
SumGt32(a, b, len) == Lt32(len, Add32(a, b))

\* `offset + sizeof (T) > len': the sum has type size_t, so it wraps at 32
\* bits on an ILP32 build and is exact on an LP64 build
SizeTBits == {32, 64}
SumGtSizeT(a, n, len, bits) ==
  IF bits = 64 THEN ExactSumGt(a, Small(n), len) ELSE SumGt32(a, Small(n), len)

(***************************************************************************)
(* Sizes of the on-disk structures (cil-coff.h) and the header constants   *)
(* the loader compares against.                                            *)
(***************************************************************************)
SizeofMSDOSHeader == 128
SizeofDotNetHeader == 248
SizeofCOFFHeader == 20
SizeofSectionTable == 40
SizeofCLIHeader == 136
MachineX86 == 332
PEMagic32 == 267
GuidSize == 16
INVALID_ADDRESS == U32(65535, 65535)

ChM == 77
ChZ == 90
ChP == 80
ChE == 69

(***************************************************************************)
(* The contents of a file or byte buffer handed to the loader.  The fields *)
(* are what the loader reads at the places it computes: the MS-DOS header  *)
(* at 0, the PE header at pe_offset, the section table right after it, the *)
(* CLI header and the metadata root where the section table maps their     *)
(* RVAs.  Whether those places lie inside the buffer is decided by the     *)
(* loader's own arithmetic on raw_data_len.                                *)
(***************************************************************************)
NoName == "none"

Section(va, size, ptr) ==
  [st_virtual_address |-> va, st_raw_data_size |-> size, st_raw_data_ptr |-> ptr]

Stream(name, offset, size) == [name |-> name, offset |-> offset, size |-> size]

GoodStreams ==
  << Stream("#~", Small(108), Small(200)),
     Stream("#Strings", Small(308), Small(100)),
     Stream("#GUID", Small(408), Small(16)) >>

\* a well-formed PE32 file with a CLI payload
GoodPE(guid, asm) ==
  [ raw_data_len |-> Small(4096),
    msdos_sig |-> <<ChM, ChZ>>,
    pe_offset |-> Small(128),
    pesig |-> <<ChP, ChE, 0, 0>>,
    coff_machine |-> MachineX86,
    coff_opt_header_size |-> SizeofDotNetHeader - SizeofCOFFHeader - 4,
    pe_magic |-> PEMagic32,
    sections |-> << Section(Small(8192), Small(2048), Small(512)) >>,
    pe_cli_header_rva |-> Small(8192),
    ch_metadata_rva |-> Small(8328),
    ch_metadata_size |-> Small(1024),
    md_sig |-> "BSJB",
    md_root_len |-> Small(108),
    streams |-> GoodStreams,
    guid |-> guid,
    assembly_name |-> asm ]

(***************************************************************************)
(* mono_cli_rva_image_map: the raw offset of an RVA, from the first        *)
(* section whose [virtual_address, virtual_address + raw_data_size)        *)
(* holds it; the bound is a guint32 sum.                                   *)
(***************************************************************************)
SectionHolds(t, addr) ==
  /\ Le32(t.st_virtual_address, addr)
  /\ Lt32(addr, Add32(t.st_virtual_address, t.st_raw_data_size))

mono_cli_rva_image_map(tables, addr) ==
  IF \E i \in 1..Len(tables) : SectionHolds(tables[i], addr)
  THEN LET i == CHOOSE k \in 1..Len(tables) :
                  /\ SectionHolds(tables[k], addr)
                  /\ \A j \in 1..(k - 1) : ~SectionHolds(tables[j], addr)
       IN  Add32(Sub32(addr, tables[i].st_virtual_address), tables[i].st_raw_data_ptr)
  ELSE INVALID_ADDRESS

(***************************************************************************)
(* A bounds-checked copy `if (offset + n > raw_data_len) fail; memcpy':    *)
(* FAIL when the check rejects it, UB when the check passes only because   *)
(* the sum wrapped (the memcpy then reads outside the buffer), else OK.    *)
(***************************************************************************)
CheckedRead(offset, n, len, bits) ==
  IF SumGtSizeT(offset, n, len, bits) THEN "FAIL"
  ELSE IF ExactSumGt(offset, Small(n), len) THEN "UB"
  ELSE "OK"

\* a read of n bytes at offset that the code does not check at all
UncheckedRead(offset, n, len) ==
  IF ExactSumGt(offset, n, len) THEN "UB" ELSE "OK"

RECURSIVE SectionTableReads(_, _, _, _, _)
SectionTableReads(i, top, offset, len, bits) ==
  IF i >= top THEN "OK"
  ELSE LET r == CheckedRead(offset, SizeofSectionTable, len, bits)
       IN  IF r # "OK" THEN r
           ELSE SectionTableReads(i + 1, top, Add32(offset, Small(SizeofSectionTable)),
                                  len, bits)

load_section_tables(pe, offset, bits) ==
  SectionTableReads(0, Len(pe.sections), offset, pe.raw_data_len, bits)

load_cli_header(pe, bits) ==
  LET offset == mono_cli_rva_image_map(pe.sections, pe.pe_cli_header_rva)
  IN  IF offset = INVALID_ADDRESS THEN "FAIL"
      ELSE CheckedRead(offset, SizeofCLIHeader, pe.raw_data_len, bits)

\* the stream header that ends up describing a heap: the last one of that name
HasStream(pe, names) == \E i \in 1..Len(pe.streams) : pe.streams[i].name \in names
LastStream(pe, names) ==
  pe.streams[CHOOSE i \in 1..Len(pe.streams) :
               /\ pe.streams[i].name \in names
               /\ \A j \in (i + 1)..Len(pe.streams) : pe.streams[j].name \notin names]

load_metadata_ptrs(pe) ==
  LET offset == mono_cli_rva_image_map(pe.sections, pe.ch_metadata_rva)
      len == pe.raw_data_len
  IN  IF offset = INVALID_ADDRESS THEN "FAIL"
      ELSE IF SumGt32(offset, pe.ch_metadata_size, len) THEN "FAIL"
      ELSE IF UncheckedRead(offset, Small(4), len) = "UB" THEN "UB"
      ELSE IF pe.md_sig # "BSJB" THEN "FAIL"
      ELSE IF UncheckedRead(offset, pe.md_root_len, len) = "UB" THEN "UB"
      ELSE IF ~HasStream(pe, {"#GUID"}) THEN "ABORT"
      ELSE LET g == LastStream(pe, {"#GUID"})
           IN  IF Lt32(g.size, Small(GuidSize)) THEN "ABORT"
               ELSE IF ExactSumGt(offset, g.offset, len) THEN "UB"
               ELSE UncheckedRead(Add32(offset, g.offset), Small(GuidSize), len)

\* heap_tables.data stays NULL without a #~ or #- stream and is dereferenced
load_tables(pe) ==
  IF ~HasStream(pe, {"#~", "#-"}) THEN "UB" ELSE "OK"

load_metadata(pe) ==
  LET r == load_metadata_ptrs(pe)
  IN  IF r # "OK" THEN r ELSE load_tables(pe)

(***************************************************************************)
(* do_mono_image_load: "OK" (the image is returned, status OK), "INVALID"  *)
(* (goto invalid_image: the image is closed, NULL is returned, status      *)
(* IMAGE_INVALID), "ABORT" (a g_assert stops the process) or "UB" (the     *)
(* code has read outside the buffer).                                      *)
(***************************************************************************)
FromParser(r) == IF r = "FAIL" THEN "INVALID" ELSE r

HeaderChecks(pe) ==
  /\ pe.coff_machine = MachineX86
  /\ pe.coff_opt_header_size = SizeofDotNetHeader - SizeofCOFFHeader - 4
  /\ ~(pe.pesig[1] # ChP \/ pe.pesig[2] # ChE \/ pe.pe_magic # PEMagic32)

do_mono_image_load(pe, care_about_cli, bits) ==
  LET len == pe.raw_data_len
      msdos == CheckedRead(Small(0), SizeofMSDOSHeader, len, bits)
      hdr == CheckedRead(pe.pe_offset, SizeofDotNetHeader, len, bits)
      offset == Add32(pe.pe_offset, Small(SizeofDotNetHeader))
      sect == load_section_tables(pe, offset, bits)
      cli == load_cli_header(pe, bits)
  IN  IF msdos # "OK" THEN FromParser(msdos)
      ELSE IF ~(pe.msdos_sig[1] = ChM /\ pe.msdos_sig[2] = ChZ) THEN "INVALID"
      ELSE IF hdr # "OK" THEN FromParser(hdr)
      ELSE IF ~HeaderChecks(pe) THEN "INVALID"
      ELSE IF sect # "OK" THEN FromParser(sect)
      ELSE IF ~care_about_cli THEN "OK"
      ELSE IF cli # "OK" THEN FromParser(cli)
      ELSE FromParser(load_metadata(pe))

\* what the caller can observe of one run of the loader; a read outside the
\* buffer may fault, or deliver bytes that pass or fail the later checks
Returned(ok) == [kind |-> "return", image |-> ok,
                 status |-> IF ok THEN "OK" ELSE "IMAGE_INVALID"]
Aborted == [kind |-> "abort", image |-> FALSE, status |-> "IMAGE_INVALID"]
Faulted == [kind |-> "fault", image |-> FALSE, status |-> "IMAGE_INVALID"]

LoadOutcomes(pe, care_about_cli, bits) ==
  LET r == do_mono_image_load(pe, care_about_cli, bits)
  IN  CASE r = "OK" -> {Returned(TRUE)}
        [] r = "INVALID" -> {Returned(FALSE)}
        [] r = "ABORT" -> {Aborted}
        [] OTHER -> {Faulted, Returned(FALSE), Returned(TRUE)}

(***************************************************************************)
(* The files and byte buffers of the model.                                *)
(***************************************************************************)
NoGuid == "noguid"
Guids == {"g1", "g2"}
Paths == {"/a", "/b", "/bad", "/none"}
DataBufs == {"d1"}
DataName(d) == "data-" \o d
Keys == Paths \cup {"asm1"} \cup {DataName(d) : d \in DataBufs}

\* The paths are canonical and free of symbolic links, so that the key
\* mono_image_open_full looks up (mono_path_canonicalize) and the name
\* do_mono_image_open stores (mono_path_resolve_symlinks) are the path itself.
\* /a and /b are two assemblies with the same GUID and the same assembly
\* name; /bad is not an x86 image; /none does not exist
FileAt(p) ==
  CASE p = "/a" -> GoodPE("g1", "asm1")
    [] p = "/b" -> GoodPE("g1", "asm1")
    [] OTHER -> [GoodPE("g2", NoName) EXCEPT !.coff_machine = 0]

\* fopen fails on every other path
FileExists(p) == p \in {"/a", "/b", "/bad"}

\* what a caller's buffer may hold when it is handed to the loader
DataContents ==
  { GoodPE("g2", NoName),
    [GoodPE("g2", NoName) EXCEPT !.msdos_sig = <<ChM, ChM>>],
    [GoodPE("g2", NoName) EXCEPT !.streams = SubSeq(GoodStreams, 1, 2)] }

(***************************************************************************)
(* State.                                                                  *)
(*  images          every MonoImage allocated so far, by address 1, 2, ..  *)
(*                  (freed > 0: the object has been released)              *)
(*  loaded_images_* the four registry hash tables, NULL where no entry     *)
(*  images_mutex    the thread inside the registry's critical section      *)
(*  th              per thread: the call in progress and its locals        *)
(*  handed          per image: references returned to callers (by open,    *)
(*                  open_from_data, addref) and not yet passed to close    *)
(*  pe, out         ParseSpec: the input and the outcome of the loader     *)
(***************************************************************************)
VARIABLES images, loaded_images_hash, loaded_images_guid_hash,
          loaded_images_refonly_hash, loaded_images_refonly_guid_hash,
          images_mutex, th, handed, pe, out

maps == <<loaded_images_hash, loaded_images_guid_hash,
          loaded_images_refonly_hash, loaded_images_refonly_guid_hash>>
vars == <<images, maps, images_mutex, th, handed, pe, out>>

ImageIds == 1..MaxImages
Allocated == 1..Len(images)

IdleThread ==
  [pc |-> "idle", op |-> "none", fname |-> NoName, refonly |-> FALSE,
   image |-> NULL, image2 |-> NULL, cont |-> "none", res |-> NULL,
   status |-> "unset"]

NoPE == [raw_data_len |-> Small(0)]
NoOut == [kind |-> "none"]

Init ==
  /\ images = << >>
  /\ loaded_images_hash = [k \in Keys |-> NULL]
  /\ loaded_images_refonly_hash = [k \in Keys |-> NULL]
  /\ loaded_images_guid_hash = [g \in Guids |-> NULL]
  /\ loaded_images_refonly_guid_hash = [g \in Guids |-> NULL]
  /\ images_mutex = NULL
  /\ th = [t \in Threads |-> IdleThread]
  /\ handed = [i \in ImageIds |-> 0]
  /\ pe = NoPE
  /\ out = NoOut

(***************************************************************************)
(* Which table an operation works on.                                      *)
(***************************************************************************)
\* mono_image_loaded_full, mono_image_open_full: the path table of a flag
PathTable(refonly) ==
  IF refonly THEN loaded_images_refonly_hash ELSE loaded_images_hash

\* mono_image_loaded_by_guid_full, register_image, mono_image_close
GuidTable(refonly) ==
  IF refonly THEN loaded_images_refonly_guid_hash ELSE loaded_images_guid_hash

mono_image_loaded_full(name, refonly) == PathTable(refonly)[name]

mono_image_loaded_by_guid_full(guid, refonly) == GuidTable(refonly)[guid]

\* variants of the two lookups below: an open that looks every path up in
\* the regular table, and a register_image that never finds a published image
OpenLookup_IgnoreFlag(fname, refonly) == loaded_images_hash[fname]
RegisterLookup_NoRecheck(image) == NULL

\* the table mono_image_open_full looks the canonical path up in
OpenLookup(fname, refonly) == PathTable(refonly)[fname]

\* the image register_image finds already published under the new image's name
RegisterLookup(image) == PathTable(images[image].ref_only)[images[image].name]

Range(f) == {f[x] : x \in DOMAIN f}

\* a MonoImage as do_mono_image_open builds it: ref_count is set to 1
NewFileImage(fname, refonly) ==
  [name |-> fname, ref_only |-> refonly, ref_count |-> 1, guid |-> NoGuid,
   assembly_name |-> NoName, freed |-> 0, kind |-> "file"]

\* a MonoImage as mono_image_open_from_data_full builds it: g_new0 and no
\* assignment to ref_count
NewDataImage(name, refonly) ==
  [name |-> name, ref_only |-> refonly, ref_count |-> 0, guid |-> NoGuid,
   assembly_name |-> NoName, freed |-> 0, kind |-> "data"]

\* the fields a successful load fills in
Loaded(img, file) ==
  [img EXCEPT !.guid = file.guid, !.assembly_name = file.assembly_name]

(***************************************************************************)
(* register_image, the insertions of the miss branch: the path table under *)
(* the name, under the assembly name when that key is free, and the GUID   *)
(* table of the image's flag.                                              *)
(***************************************************************************)
InsertPath(table, image) ==
  LET img == images[image]
      t1 == [table EXCEPT ![img.name] = image]
  IN  IF img.assembly_name # NoName /\ t1[img.assembly_name] = NULL
      THEN [t1 EXCEPT ![img.assembly_name] = image]
      ELSE t1

InsertGuid(table, image) == [table EXCEPT ![images[image].guid] = image]

(***************************************************************************)
(* mono_image_close, the removals: by name and by GUID when the name still *)
(* maps to this image, and by assembly name when that key maps to it.      *)
(***************************************************************************)
\* a variant of the test below that compares names instead of images
IsRegistered_ByName(table, image) == table[images[image].name] # NULL

IsRegistered(table, image) == table[images[image].name] = image

RemovePath(table, image) ==
  LET img == images[image]
      t1 == IF IsRegistered(table, image)
            THEN [table EXCEPT ![img.name] = NULL] ELSE table
  IN  IF img.assembly_name # NoName /\ t1[img.assembly_name] = image
      THEN [t1 EXCEPT ![img.assembly_name] = NULL]
      ELSE t1

RemoveGuid(pathTable, guidTable, image) ==
  IF IsRegistered(pathTable, image)
  THEN [guidTable EXCEPT ![images[image].guid] = NULL]
  ELSE guidTable

(***************************************************************************)
(* build_guid_table (refonly) / register_guid: every image of the path     *)
(* table of the flag is inserted under its GUID into loaded_images_guid_   *)
(* hash, whatever the flag.  The lookup that guards the insert is keyed by *)
(* the image object instead of a GUID string and finds nothing.  The       *)
(* iteration order of g_hash_table_foreach is unspecified, so among images *)
(* with one GUID any may be inserted last.                                 *)
(***************************************************************************)
BuildGuidResults(guidTable, source) ==
  { m \in [Guids -> {NULL} \cup ImageIds] :
      \A g \in Guids :
        LET same == {i \in source : images[i].guid = g}
        IN  IF same = {} THEN m[g] = guidTable[g] ELSE m[g] \in same }

(***************************************************************************)
(* Guards that keep the model finite: images are never re-allocated, and   *)
(* the callers hold a bounded number of references at a time.              *)
(***************************************************************************)
RECURSIVE SumHanded(_)
SumHanded(n) == IF n = 0 THEN 0 ELSE handed[n] + SumHanded(n - 1)

Opening == {u \in Threads : th[u].op \in {"open", "data"}}
Outstanding == SumHanded(MaxImages) + Cardinality(Opening)
MayAllocate ==
  Len(images) + Cardinality({u \in Threads : th[u].pc \in {"open_cs", "open_parse"}})
    < MaxImages
MayTakeRef == Outstanding < MaxRefs

Halted == [t \in Threads |-> [th[t] EXCEPT !.pc = "halted"]]

(***************************************************************************)
(* mono_image_open_full (fname, status, refonly)                           *)
(***************************************************************************)
\* the call, up to mono_images_lock ()
Open(t, fname, refonly) ==
  /\ th[t].pc = "idle"
  /\ images_mutex = NULL
  /\ MayAllocate /\ MayTakeRef
  /\ images_mutex' = t
  /\ th' = [th EXCEPT ![t] = [IdleThread EXCEPT !.pc = "open_cs", !.op = "open",
                                                !.fname = fname, !.refonly = refonly]]
  /\ UNCHANGED <<images, maps, handed, pe, out>>

\* a variant of the step below that keeps the lock over the parse on a miss
OpenLookupStep_HoldLock(t) ==
  /\ th[t].pc = "open_cs"
  /\ LET image == OpenLookup(th[t].fname, th[t].refonly)
     IN  IF image # NULL
         THEN /\ images' = [images EXCEPT ![image].ref_count = @ + 1]
              /\ th' = [th EXCEPT ![t].pc = "ret", ![t].res = image]
              /\ images_mutex' = NULL
         ELSE /\ th' = [th EXCEPT ![t].pc = "open_parse"]
              /\ UNCHANGED <<images, images_mutex>>
  /\ UNCHANGED <<maps, handed, pe, out>>

\* the first critical section: on a hit addref and return, else go and parse
OpenLookupStep(t) ==
  /\ th[t].pc = "open_cs"
  /\ LET image == OpenLookup(th[t].fname, th[t].refonly)
     IN  IF image # NULL
         THEN /\ images' = [images EXCEPT ![image].ref_count = @ + 1]
              /\ th' = [th EXCEPT ![t].pc = "ret", ![t].res = image]
         ELSE /\ th' = [th EXCEPT ![t].pc = "open_parse"]
              /\ UNCHANGED images
  /\ images_mutex' = NULL
  /\ UNCHANGED <<maps, handed, pe, out>>

\* what follows the construction of an image: do_mono_image_load on its bytes
LoadInto(t, img, file, o) ==
  CASE o.kind = "return" /\ o.image ->
         /\ images' = Append(images, Loaded(img, file))
         /\ th' = [th EXCEPT ![t].pc = "reg_lock", ![t].image = Len(images) + 1,
                             ![t].status = "OK"]
    [] o.kind = "return" /\ ~o.image ->
         /\ images' = Append(images, img)
         /\ th' = [th EXCEPT ![t].pc = "close_dec", ![t].image = Len(images) + 1,
                             ![t].cont = "load", ![t].status = "IMAGE_INVALID"]
    [] OTHER ->
         /\ images' = Append(images, img)
         /\ th' = Halted

\* do_mono_image_open (fname, status, TRUE, refonly), outside the lock
DoOpen(t) ==
  /\ th[t].pc = "open_parse"
  /\ IF ~FileExists(th[t].fname)
     THEN /\ th' = [th EXCEPT ![t].pc = "ret", ![t].res = NULL,
                              ![t].status = "ERROR_ERRNO"]
          /\ UNCHANGED images
     ELSE \E bits \in SizeTBits :
            \E o \in LoadOutcomes(FileAt(th[t].fname), TRUE, bits) :
              LoadInto(t, NewFileImage(th[t].fname, th[t].refonly),
                       FileAt(th[t].fname), o)
  /\ UNCHANGED <<maps, images_mutex, handed, pe, out>>

(***************************************************************************)
(* mono_image_open_from_data_full (data, data_len, need_copy, status,      *)
(* refonly): the image is named after the address of the bytes; no lookup  *)
(* precedes the load.                                                      *)
(***************************************************************************)
OpenFromData(t, d, file, refonly) ==
  /\ th[t].pc = "idle"
  /\ MayAllocate /\ MayTakeRef
  /\ \E bits \in SizeTBits :
       \E o \in LoadOutcomes(file, TRUE, bits) :
         LET call == [th EXCEPT ![t] = [IdleThread EXCEPT !.op = "data",
                                          !.fname = DataName(d), !.refonly = refonly]]
         IN  CASE o.kind = "return" /\ o.image ->
                    /\ images' = Append(images, Loaded(NewDataImage(DataName(d), refonly), file))
                    /\ th' = [call EXCEPT ![t].pc = "reg_lock",
                                          ![t].image = Len(images) + 1,
                                          ![t].status = "OK"]
               [] o.kind = "return" /\ ~o.image ->
                    /\ images' = Append(images, NewDataImage(DataName(d), refonly))
                    /\ th' = [call EXCEPT ![t].pc = "close_dec",
                                          ![t].image = Len(images) + 1,
                                          ![t].cont = "load",
                                          ![t].status = "IMAGE_INVALID"]
               [] OTHER ->
                    /\ images' = Append(images, NewDataImage(DataName(d), refonly))
                    /\ th' = Halted
  /\ UNCHANGED <<maps, images_mutex, handed, pe, out>>

(***************************************************************************)
(* register_image (image)                                                  *)
(***************************************************************************)
RegisterLock(t) ==
  /\ th[t].pc = "reg_lock"
  /\ images_mutex = NULL
  /\ images_mutex' = t
  /\ th' = [th EXCEPT ![t].pc = "reg_cs"]
  /\ UNCHANGED <<images, maps, handed, pe, out>>

\* the critical section: somebody else beat us to it (addref the published
\* image, then close ours), or publish ours
RegisterStep(t) ==
  /\ th[t].pc = "reg_cs"
  /\ LET image == th[t].image
         image2 == RegisterLookup(image)
         refonly == images[image].ref_only
     IN  IF image2 # NULL
         THEN /\ images' = [images EXCEPT ![image2].ref_count = @ + 1]
              /\ th' = [th EXCEPT ![t].pc = "close_dec", ![t].image2 = image2,
                                  ![t].cont = "dup"]
              /\ UNCHANGED maps
         ELSE /\ IF refonly
                 THEN /\ loaded_images_refonly_hash' =
                           InsertPath(loaded_images_refonly_hash, image)
                      /\ loaded_images_refonly_guid_hash' =
                           InsertGuid(loaded_images_refonly_guid_hash, image)
                      /\ UNCHANGED <<loaded_images_hash, loaded_images_guid_hash>>
                 ELSE /\ loaded_images_hash' = InsertPath(loaded_images_hash, image)
                      /\ loaded_images_guid_hash' =
                           InsertGuid(loaded_images_guid_hash, image)
                      /\ UNCHANGED <<loaded_images_refonly_hash,
                                     loaded_images_refonly_guid_hash>>
              /\ th' = [th EXCEPT ![t].pc = "ret", ![t].res = image]
              /\ UNCHANGED images
  /\ images_mutex' = NULL
  /\ UNCHANGED <<handed, pe, out>>

(***************************************************************************)
(* mono_image_close (image)                                                *)
(***************************************************************************)
\* where a finished close returns to: the caller, the failed load (NULL is
\* returned), register_image (the published image is returned) or the loop
\* over the modules in the close of a parent (image2)
AfterClose(t) ==
  CASE th[t].cont = "load" -> [th EXCEPT ![t].pc = "ret", ![t].res = NULL]
    [] th[t].cont = "dup" -> [th EXCEPT ![t].pc = "ret", ![t].res = th[t].image2]
    [] th[t].cont = "module" ->
         [th EXCEPT ![t].pc = "close_free", ![t].image = th[t].image2,
                    ![t].image2 = NULL, ![t].cont = "user"]
    [] OTHER -> [th EXCEPT ![t] = IdleThread]

\* InterlockedDecrement (&image->ref_count) > 0: return
CloseDecrement(t) ==
  /\ th[t].pc = "close_dec"
  /\ LET image == th[t].image
     IN  /\ images' = [images EXCEPT ![image].ref_count = @ - 1]
         /\ th' = IF images[image].ref_count - 1 > 0
                  THEN AfterClose(t)
                  ELSE [th EXCEPT ![t].pc = "close_lock"]
  /\ UNCHANGED <<maps, images_mutex, handed, pe, out>>

CloseLock(t) ==
  /\ th[t].pc = "close_lock"
  /\ images_mutex = NULL
  /\ images_mutex' = t
  /\ th' = [th EXCEPT ![t].pc = "close_cs"]
  /\ UNCHANGED <<images, maps, handed, pe, out>>

\* the critical section: de-register, then build_guid_table (image->ref_only)
CloseUnregister(t) ==
  /\ th[t].pc = "close_cs"
  /\ LET image == th[t].image
         refonly == images[image].ref_only
     IN  IF refonly
         THEN /\ loaded_images_refonly_hash' =
                   RemovePath(loaded_images_refonly_hash, image)
              /\ loaded_images_refonly_guid_hash' =
                   RemoveGuid(loaded_images_refonly_hash,
                              loaded_images_refonly_guid_hash, image)
              /\ loaded_images_guid_hash' \in
                   BuildGuidResults(loaded_images_guid_hash,
                     Range(RemovePath(loaded_images_refonly_hash, image)) \ {NULL})
              /\ UNCHANGED loaded_images_hash
         ELSE /\ loaded_images_hash' = RemovePath(loaded_images_hash, image)
              /\ loaded_images_guid_hash' \in
                   BuildGuidResults(
                     RemoveGuid(loaded_images_hash, loaded_images_guid_hash, image),
                     Range(RemovePath(loaded_images_hash, image)) \ {NULL})
              /\ UNCHANGED <<loaded_images_refonly_hash,
                             loaded_images_refonly_guid_hash>>
  /\ images_mutex' = NULL
  /\ th' = [th EXCEPT ![t].pc = "close_free"]
  /\ UNCHANGED <<images, handed, pe, out>>

\* the rest of mono_image_close: the buffer, the caches and the object are
\* freed; freeing them a second time corrupts the heap and the process is
\* not followed any further
CloseFree(t) ==
  /\ th[t].pc = "close_free"
  /\ images' = [images EXCEPT ![th[t].image].freed = @ + 1]
  /\ th' = IF images[th[t].image].freed > 0 THEN Halted ELSE AfterClose(t)
  /\ UNCHANGED <<maps, images_mutex, handed, pe, out>>

(***************************************************************************)
(* The callers.                                                            *)
(***************************************************************************)
\* an open returns: the caller now holds the reference
Return(t) ==
  /\ th[t].pc = "ret"
  /\ handed' = IF th[t].res # NULL
               THEN [handed EXCEPT ![th[t].res] = @ + 1] ELSE handed
  /\ th' = [th EXCEPT ![t] = IdleThread]
  /\ UNCHANGED <<images, maps, images_mutex, pe, out>>

\* a caller passes one of the references it holds to mono_image_close
Close(t, image) ==
  /\ th[t].pc = "idle"
  /\ image \in Allocated
  /\ handed[image] > 0
  /\ handed' = [handed EXCEPT ![image] = @ - 1]
  /\ th' = [th EXCEPT ![t] = [IdleThread EXCEPT !.pc = "close_dec", !.op = "close",
                                                !.image = image, !.cont = "user"]]
  /\ UNCHANGED <<images, maps, images_mutex, pe, out>>

\* mono_image_addref (image) by a caller that holds a reference
Addref(t, image) ==
  /\ th[t].pc = "idle"
  /\ image \in Allocated
  /\ handed[image] > 0
  /\ MayTakeRef
  /\ images' = [images EXCEPT ![image].ref_count = @ + 1]
  /\ handed' = [handed EXCEPT ![image] = @ + 1]
  /\ UNCHANGED <<maps, images_mutex, th, pe, out>>

\* a thread that touches an image already freed may fault instead
Fault(t) ==
  /\ \/ /\ th[t].pc \in {"close_dec", "close_cs", "close_free"}
        /\ images[th[t].image].freed > 0
     \/ /\ th[t].pc = "idle"
        /\ \E i \in Allocated : handed[i] > 0 /\ images[i].freed > 0
  /\ th' = Halted
  /\ images_mutex' = NULL
  /\ UNCHANGED <<images, maps, handed, pe, out>>

Step(t) ==
  \/ \E fname \in Paths, refonly \in BOOLEAN : Open(t, fname, refonly)
  \/ OpenLookupStep(t)
  \/ DoOpen(t)
  \/ \E d \in DataBufs, file \in DataContents, refonly \in BOOLEAN :
       OpenFromData(t, d, file, refonly)
  \/ RegisterLock(t)
  \/ RegisterStep(t)
  \/ CloseDecrement(t)
  \/ CloseLock(t)
  \/ CloseUnregister(t)
  \/ CloseFree(t)
  \/ Return(t)
  \/ \E image \in ImageIds : Close(t, image)
  \/ \E image \in ImageIds : Addref(t, image)
  \/ Fault(t)

Next == \E t \in Threads : Step(t)

Spec == Init /\ [][Next]_vars

(***************************************************************************)
(* The same operations with the calls made one after another: a thread     *)
(* takes a step only while no other thread is inside a call.               *)
(***************************************************************************)
Quiet(t) == \A u \in Threads \ {t} : th[u].pc \in {"idle", "halted"}

SeqOpen(t) == Quiet(t) /\ \E fname \in Paths, refonly \in BOOLEAN : Open(t, fname, refonly)
SeqOpenLookupStep(t) == Quiet(t) /\ OpenLookupStep(t)
SeqDoOpen(t) == Quiet(t) /\ DoOpen(t)
SeqOpenFromData(t) ==
  Quiet(t) /\ \E d \in DataBufs, file \in DataContents, refonly \in BOOLEAN :
                OpenFromData(t, d, file, refonly)
SeqRegisterLock(t) == Quiet(t) /\ RegisterLock(t)
SeqRegisterStep(t) == Quiet(t) /\ RegisterStep(t)
SeqCloseDecrement(t) == Quiet(t) /\ CloseDecrement(t)
SeqCloseLock(t) == Quiet(t) /\ CloseLock(t)
SeqCloseUnregister(t) == Quiet(t) /\ CloseUnregister(t)
SeqCloseFree(t) == Quiet(t) /\ CloseFree(t)
SeqReturn(t) == Quiet(t) /\ Return(t)
SeqClose(t) == Quiet(t) /\ \E image \in ImageIds : Close(t, image)
SeqAddref(t) == Quiet(t) /\ \E image \in ImageIds : Addref(t, image)
SeqFault(t) == Quiet(t) /\ Fault(t)

SeqNext ==
  \E t \in Threads :
    \/ SeqOpen(t)
    \/ SeqOpenLookupStep(t)
    \/ SeqDoOpen(t)
    \/ SeqOpenFromData(t)
    \/ SeqRegisterLock(t)
    \/ SeqRegisterStep(t)
    \/ SeqCloseDecrement(t)
    \/ SeqCloseLock(t)
    \/ SeqCloseUnregister(t)
    \/ SeqCloseFree(t)
    \/ SeqReturn(t)
    \/ SeqClose(t)
    \/ SeqAddref(t)
    \/ SeqFault(t)

SeqSpec == Init /\ [][SeqNext]_vars

(***************************************************************************)
(* Threads that only open: no caller closes or addrefs an image.  The      *)
(* closes that remain are the loader's own (a failed load, a discarded     *)
(* duplicate).                                                             *)
(***************************************************************************)
OpenStep(t) ==
  \/ \E fname \in Paths, refonly \in BOOLEAN : Open(t, fname, refonly)
  \/ OpenLookupStep(t)
  \/ DoOpen(t)
  \/ \E d \in DataBufs, file \in DataContents, refonly \in BOOLEAN :
       OpenFromData(t, d, file, refonly)
  \/ RegisterLock(t)
  \/ RegisterStep(t)
  \/ CloseDecrement(t)
  \/ CloseLock(t)
  \/ CloseUnregister(t)
  \/ CloseFree(t)
  \/ Return(t)

OpenNext == \E t \in Threads : OpenStep(t)

OpenSpec == Init /\ [][OpenNext]_vars

(***************************************************************************)
(* The loader alone, on a bounded set of inputs: every combination of the  *)
(* field values below, loaded once with or without CLI parsing on an ILP32 *)
(* or an LP64 build.                                                       *)
(***************************************************************************)
OtherSection == Section(Small(16384), Small(512), Small(2560))
\* a section whose raw data would end 2560 bytes past a 4096-byte buffer
LongSection == Section(Small(16384), Small(4096), Small(2560))

UnderTest ==
  { [ raw_data_len |-> len, msdos_sig |-> sig, pe_offset |-> off, pesig |-> pesig,
      coff_machine |-> machine, coff_opt_header_size |-> opt, pe_magic |-> magic,
      sections |-> sects, pe_cli_header_rva |-> clirva,
      ch_metadata_rva |-> Small(8328), ch_metadata_size |-> mdsize,
      md_sig |-> mdsig, md_root_len |-> Small(108), streams |-> streams,
      guid |-> "g1", assembly_name |-> NoName ] :
      len \in {Small(100), Small(4096)},
      sig \in {<<ChM, ChZ>>, <<ChZ, ChM>>},
      off \in {Small(128), Small(3800), Small(4000), U32(65535, 65288)},
      pesig \in {<<ChP, ChE, 0, 0>>, <<ChP, ChE, 1, 0>>, <<ChP, ChM, 0, 0>>},
      machine \in {MachineX86, 512},
      opt \in {SizeofDotNetHeader - SizeofCOFFHeader - 4, 240},
      magic \in {PEMagic32, 523},
      sects \in {<< Section(Small(8192), Small(2048), Small(512)) >>,
                 << Section(Small(8192), Small(2048), Small(512)), OtherSection >>,
                 << Section(Small(8192), Small(2048), Small(512)), LongSection >>},
      clirva \in {Small(8192), Small(64)},
      mdsize \in {Small(1024), Small(8000)},
      mdsig \in {"BSJB", "BSJA"},
      streams \in {GoodStreams, SubSeq(GoodStreams, 1, 2),
                   << Stream("#~", Small(108), Small(200)),
                      Stream("#GUID", Small(408), Small(8)) >>,
                   << Stream("#~", Small(108), Small(200)),
                      Stream("#Strings", Small(308), Small(8000)),
                      Stream("#GUID", Small(408), Small(16)) >>} }

ParseInit ==
  /\ images = << >>
  /\ loaded_images_hash = [k \in Keys |-> NULL]
  /\ loaded_images_refonly_hash = [k \in Keys |-> NULL]
  /\ loaded_images_guid_hash = [g \in Guids |-> NULL]
  /\ loaded_images_refonly_guid_hash = [g \in Guids |-> NULL]
  /\ images_mutex = NULL
  /\ th = [t \in Threads |-> IdleThread]
  /\ handed = [i \in ImageIds |-> 0]
  /\ pe \in UnderTest
  /\ out = NoOut

Load(care_about_cli, bits) ==
  /\ out = NoOut
  /\ \E o \in LoadOutcomes(pe, care_about_cli, bits) :
       out' = [kind |-> o.kind, image |-> o.image, status |-> o.status,
               care_about_cli |-> care_about_cli, bits |-> bits]
  /\ UNCHANGED <<images, maps, images_mutex, th, handed, pe>>

ParseNext == \E care_about_cli \in BOOLEAN, bits \in SizeTBits : Load(care_about_cli, bits)

ParseSpec == ParseInit /\ [][ParseNext]_vars

(***************************************************************************)
(* Vocabulary of the claims.                                               *)
(***************************************************************************)
PathTables == {loaded_images_hash, loaded_images_refonly_hash}
AllTables == PathTables \cup {loaded_images_guid_hash, loaded_images_refonly_guid_hash}

\* no g_assert or fault has stopped the process
Alive == \A t \in Threads : th[t].pc # "halted"

\* the image is published: the path table of its flag maps its name to it
Published(i) == PathTable(images[i].ref_only)[images[i].name] = i

\* stored as a value somewhere in the registry
Stored(i) == \E table \in AllTables : i \in Range(table)

\* an image built by mono_image_open_full whose load succeeded
ParsedFile(i) == images[i].kind = "file" /\ images[i].guid # NoGuid

\* thread t is carrying image i through register_image or mono_image_close
Carrying(t, i) ==
  /\ th[t].image = i
  /\ th[t].pc \in {"reg_lock", "reg_cs", "close_dec", "close_lock", "close_cs",
                   "close_free"}

\* an open (fname, refonly) of thread t has returned a non-null image
OpenReturned(t) == th[t].pc = "ret" /\ th[t].op = "open" /\ th[t].res # NULL

\* the callers hold a reference to a file image opened as (fname, refonly)
HeldAs(i, fname, refonly) ==
  /\ handed[i] > 0
  /\ images[i].kind = "file"
  /\ images[i].name = fname
  /\ images[i].ref_only = refonly

\* the copies of (fname, refonly) that were parsed and lost the race to the
\* image the path table holds
Discarded(fname, refonly) ==
  {i \in Allocated : /\ ParsedFile(i) /\ ~Published(i)
                     /\ images[i].name = fname /\ images[i].ref_only = refonly
                     /\ PathTable(refonly)[fname] # NULL}

(***************************************************************************)
(* C1.  Threads that open the same path with the same flag concurrently,   *)
(* with no close by a caller, all get the published image: every returned  *)
(* image, and every image a caller holds, is the one the path table of     *)
(* its flag maps the path to, and an entry of a path table never changes   *)
(* once made (so it is the first image inserted).  Every other parsed copy *)
(* is in no table, is either still carried by its thread towards its close *)
(* or has been freed exactly once, and there are at most NThreads - 1 of   *)
(* them per path and flag.  (All of this as long as the process runs: a    *)
(* failed g_assert in the loader stops every thread.)                      *)
(***************************************************************************)
C1_State ==
  Alive =>
  /\ \A t \in Threads :
       OpenReturned(t) => th[t].res = PathTable(th[t].refonly)[th[t].fname]
  /\ \A i \in Allocated :
       /\ handed[i] > 0 => Published(i)
       /\ Stored(i) => Published(i)
       /\ (ParsedFile(i) /\ ~Published(i)) =>
            \/ \E t \in Threads : Carrying(t, i) /\ images[i].freed = 0
            \/ images[i].freed = 1
  /\ \A fname \in Paths, refonly \in BOOLEAN :
       Cardinality(Discarded(fname, refonly)) <= NThreads - 1

C1_FirstStays ==
  \A refonly \in BOOLEAN, k \in Keys :
    PathTable(refonly)[k] # NULL => PathTable(refonly)'[k] = PathTable(refonly)[k]

C1_ConcurrentOpen == [](C1_State) /\ [][C1_FirstStays]_vars

\* two threads raced on one path: one copy is published and held by both
\* callers' calls, the other has been discarded and freed
C1_Witness ==
  \E t \in Threads, i \in Allocated :
    /\ OpenReturned(t) /\ th[t].cont = "dup"
    /\ th[t].res # th[t].image
    /\ images[th[t].image].freed = 1
    /\ i = th[t].res /\ handed[i] > 0 /\ Published(i)

(***************************************************************************)
(* C2.  With the calls made in sequence: an open of a path and flag for    *)
(* which a caller still holds an image returns that same image, builds no  *)
(* new image and leaves the image with exactly one more reference than the *)
(* callers held; an open returns an image of the flag asked for (so the    *)
(* two flags give two images), and each path table holds only images of    *)
(* its own flag.                                                           *)
(***************************************************************************)
C2_SequentialOpen ==
  /\ \A t \in Threads :
       OpenReturned(t) =>
         /\ images[th[t].res].ref_only = th[t].refonly
         /\ \A i \in Allocated :
              HeldAs(i, th[t].fname, th[t].refonly) =>
                /\ th[t].res = i
                /\ th[t].image = NULL
                /\ images[i].ref_count = handed[i] + 1
  /\ \A k \in Keys :
       /\ loaded_images_hash[k] # NULL => ~images[loaded_images_hash[k]].ref_only
       /\ loaded_images_refonly_hash[k] # NULL =>
            images[loaded_images_refonly_hash[k]].ref_only

\* a second open of a held image has returned that image, now with two
\* references, and the same path has also been opened with the other flag,
\* which gave another image
C2_Witness ==
  \E t \in Threads, i, j \in Allocated :
    /\ OpenReturned(t)
    /\ HeldAs(i, th[t].fname, th[t].refonly)
    /\ th[t].res = i /\ Published(i) /\ images[i].ref_count = 2
    /\ ParsedFile(j) /\ images[j].name = th[t].fname
    /\ images[j].ref_only # th[t].refonly

\* no call in progress works on image i
Settled(i) ==
  \A t \in Threads :
    th[t].pc = "idle" \/ (th[t].image # i /\ th[t].image2 # i /\ th[t].res # i)

(***************************************************************************)
(* C3.  An image returned by open (path, r) stays the answer of            *)
(* loaded (path, r) for as long as a caller holds a reference to it that   *)
(* it has not passed to close, whatever the other threads open and close.  *)
(***************************************************************************)
C3_LoadedWhileHeld ==
  \A i \in Allocated :
    (images[i].kind = "file" /\ handed[i] > 0) =>
      mono_image_loaded_full(images[i].name, images[i].ref_only) = i

(***************************************************************************)
(* C4.  Opens and closes balance: an image of a path is never destroyed    *)
(* twice, and once the callers have closed every reference that open       *)
(* returned to them (and no call is working on the image) its ref_count is *)
(* 0, it has been destroyed once and loaded () no longer returns it.       *)
(***************************************************************************)
C4_OpenCloseBalance ==
  \A i \in Allocated :
    images[i].kind = "file" =>
      /\ images[i].freed <= 1
      /\ (ParsedFile(i) /\ handed[i] = 0 /\ Settled(i)) =>
           /\ images[i].ref_count = 0
           /\ images[i].freed = 1
           /\ mono_image_loaded_full(images[i].name, images[i].ref_only) # i

(***************************************************************************)
(* C5.  Every image stored in a path table or a GUID table has (outside a  *)
(* call that is working on it) a ref_count of at least 1 and has not been  *)
(* destroyed; an image in the path table of                                *)
(* a flag has an entry under its GUID in the GUID table of that flag, and  *)
(* an image in the GUID table of a flag is in the path table of that flag. *)
(***************************************************************************)
C5_TablesAgree ==
  \A refonly \in BOOLEAN :
    /\ \A i \in (Range(PathTable(refonly)) \cup Range(GuidTable(refonly))) \ {NULL} :
         Settled(i) => images[i].ref_count >= 1 /\ images[i].freed = 0
    /\ \A i \in Range(PathTable(refonly)) \ {NULL} :
         mono_image_loaded_by_guid_full(images[i].guid, refonly) # NULL
    /\ \A i \in Range(GuidTable(refonly)) \ {NULL} :
         i \in Range(PathTable(refonly))

(***************************************************************************)
(* C6.  The registry is partitioned by the flag: the path table and the    *)
(* GUID table of a flag hold only images of that flag, so                  *)
(* loaded_by_guid (g, FALSE) is never a reference-only image.              *)
(***************************************************************************)
C6_PartitionedByFlag ==
  \A refonly \in BOOLEAN :
    \A i \in (Range(PathTable(refonly)) \cup Range(GuidTable(refonly))) \ {NULL} :
      images[i].ref_only = refonly

(***************************************************************************)
(* C7.  An image leaves its constructor with ref_count 1, whether built    *)
(* from a path or from bytes, and while no call is in progress the         *)
(* ref_count of an image that has not been destroyed is the number of      *)
(* references the callers hold.                                            *)
(***************************************************************************)
C7_RefCountIsReferences ==
  /\ \A t \in Threads :
       (th[t].pc = "reg_lock" \/ (th[t].pc = "close_dec" /\ th[t].cont = "load")) =>
         images[th[t].image].ref_count = 1
  /\ (\A t \in Threads : th[t].pc = "idle") =>
       \A i \in Allocated :
         images[i].freed = 0 => images[i].ref_count = handed[i]

(***************************************************************************)
(* C8.  When the loader takes its failure exit, the open (from a path or   *)
(* from bytes) returns NULL with status IMAGE_INVALID, the partly built    *)
(* image has been destroyed exactly once and is in no table, and no step   *)
(* of the failing call changes either path table.  (The inputs on which    *)
(* the loader stops at an assertion or reads outside the buffer instead    *)
(* are the subject of C9 and C10.)                                         *)
(***************************************************************************)
C8_State ==
  /\ \A t \in Threads :
       (th[t].pc = "ret" /\ th[t].cont = "load") =>
         /\ th[t].res = NULL
         /\ th[t].status = "IMAGE_INVALID"
         /\ images[th[t].image].freed = 1
         /\ ~Stored(th[t].image)
  /\ \A i \in Allocated : images[i].guid = NoGuid => images[i].freed <= 1

C8_Frame ==
  \A t \in Threads :
    ((th[t].cont = "load" \/ th'[t].cont = "load") /\ th'[t] # th[t]) =>
      UNCHANGED <<loaded_images_hash, loaded_images_refonly_hash>>

C8_FailedLoad == [](C8_State) /\ [][C8_Frame]_vars

\* a load from bytes has failed and returned while an earlier image built
\* from the same buffer is registered under the same name
C8_Witness ==
  \E t \in Threads :
    /\ th[t].pc = "ret" /\ th[t].cont = "load" /\ th[t].res = NULL
    /\ images[th[t].image].freed = 1
    /\ PathTable(th[t].refonly)[images[th[t].image].name] \notin {NULL, th[t].image}

\* the loader has run and reported a failure to its caller
FailedAsInvalid ==
  out.kind = "return" /\ ~out.image /\ out.status = "IMAGE_INVALID"

(***************************************************************************)
(* C9.  Loading, with CLI parsing, an image whose metadata has no #GUID    *)
(* stream or a #GUID stream shorter than 16 bytes returns NULL with status *)
(* IMAGE_INVALID.  (Inputs that make the loader read outside the buffer    *)
(* before or at the stream headers are left aside.)                        *)
(***************************************************************************)
C9_GuidHeapChecked ==
  ( /\ out.kind # "none"
    /\ out.care_about_cli
    /\ do_mono_image_load(pe, TRUE, out.bits) # "UB"
    /\ \/ ~HasStream(pe, {"#GUID"})
       \/ Lt32(LastStream(pe, {"#GUID"}).size, Small(GuidSize)) )
  => FailedAsInvalid

(***************************************************************************)
(* C10.  Loading returns NULL with status IMAGE_INVALID whenever the first *)
(* two bytes are not 'M' 'Z', or pe_offset plus the size of the PE header  *)
(* exceeds the buffer length, or the COFF machine is not 0x14C, or the     *)
(* optional-header size is not the fixed one, or the PE magic is not       *)
(* 0x10B, or the section table extends past the end of the buffer.         *)
(***************************************************************************)
Malformed(file) ==
  \/ ~(file.msdos_sig[1] = ChM /\ file.msdos_sig[2] = ChZ)
  \/ ExactSumGt(file.pe_offset, Small(SizeofDotNetHeader), file.raw_data_len)
  \/ file.coff_machine # MachineX86
  \/ file.coff_opt_header_size # SizeofDotNetHeader - SizeofCOFFHeader - 4
  \/ file.pe_magic # PEMagic32
  \/ ExactSumGt(file.pe_offset,
                Small(SizeofDotNetHeader + Len(file.sections) * SizeofSectionTable),
                file.raw_data_len)

C10_HeaderChecked == (out.kind # "none" /\ Malformed(pe)) => FailedAsInvalid

(***************************************************************************)
(* C11.  An image whose PE signature at pe_offset is not the four bytes    *)
(* 'P' 'E' 0 0 is refused: the load returns NULL with status               *)
(* IMAGE_INVALID.  (Inputs that make the loader read outside the buffer    *)
(* are left aside.)                                                        *)
(***************************************************************************)
C11_SignatureChecked ==
  ( /\ out.kind # "none"
    /\ do_mono_image_load(pe, out.care_about_cli, out.bits) # "UB"
    /\ pe.pesig # <<ChP, ChE, 0, 0>> )
  => FailedAsInvalid

\* the image has been returned to the caller as successfully loaded, by a run
\* of the loader that stayed inside the buffer
LoadedOk ==
  /\ out.kind = "return" /\ out.image /\ out.status = "OK"
  /\ do_mono_image_load(pe, out.care_about_cli, out.bits) = "OK"

\* the raw data of section t lies inside a buffer of len bytes
SectionInBuffer(t, len) == ~ExactSumGt(t.st_raw_data_ptr, t.st_raw_data_size, len)

(***************************************************************************)
(* C12.  Every section of a successfully loaded image has its raw data     *)
(* inside the buffer: st_raw_data_ptr + st_raw_data_size <= raw_data_len.  *)
(***************************************************************************)
C12_SectionsInBuffer ==
  LoadedOk =>
    \A i \in 1..Len(pe.sections) : SectionInBuffer(pe.sections[i], pe.raw_data_len)

\* the heaps load_metadata_ptrs knows by name
HeapNames == {"#~", "#-", "#Strings", "#US", "#Blob", "#GUID"}

\* heap.data = raw_metadata + offset and heap.data + heap.size, as exact
\* positions, both lie inside a buffer of len bytes
HeapInBuffer(file, s) ==
  LET md == mono_cli_rva_image_map(file.sections, file.ch_metadata_rva)
  IN  /\ Carry32(md, s.offset) = 0
      /\ ~ExactSumGt(Add32(md, s.offset), s.size, file.raw_data_len)

(***************************************************************************)
(* C13.  Every heap of a successfully loaded CLI image lies inside the     *)
(* buffer, start and end, and its GUID heap has at least 16 bytes.         *)
(***************************************************************************)
C13_HeapsInBuffer ==
  (LoadedOk /\ out.care_about_cli) =>
    /\ \A i \in 1..Len(pe.streams) :
         pe.streams[i].name \in HeapNames => HeapInBuffer(pe, pe.streams[i])
    /\ HasStream(pe, {"#GUID"})
    /\ Le32(Small(GuidSize), LastStream(pe, {"#GUID"}).size)

(***************************************************************************)
(* mono_cli_rva_image_map alone, applied once to a section table and an    *)
(* RVA drawn from the sets below: tables of up to MaxSections sections,    *)
(* among them a section that ends past the buffer, one whose               *)
(* virtual_address + raw_data_size exceeds 2^32, and two that overlap.     *)
(***************************************************************************)
MaxSections == 2

RvaBufferLen == Small(4096)
HighSection == Section(U32(65535, 64512), Small(2048), Small(512))
OverlapSection == Section(Small(8192), Small(4096), Small(3000))

RvaSections ==
  { Section(Small(8192), Small(2048), Small(512)), OtherSection, LongSection,
    HighSection, OverlapSection }

RvaTables == UNION { [1..n -> RvaSections] : n \in 0..MaxSections }

RvaAddrs ==
  { Small(0), Small(8191), Small(8192), Small(9000), Small(10239), Small(10240),
    Small(16384), Small(17000), Small(20479), Small(20480),
    U32(65535, 64512), U32(65535, 65535) }

RvaInit ==
  /\ images = << >>
  /\ loaded_images_hash = [k \in Keys |-> NULL]
  /\ loaded_images_refonly_hash = [k \in Keys |-> NULL]
  /\ loaded_images_guid_hash = [g \in Guids |-> NULL]
  /\ loaded_images_refonly_guid_hash = [g \in Guids |-> NULL]
  /\ images_mutex = NULL
  /\ th = [t \in Threads |-> IdleThread]
  /\ handed = [i \in ImageIds |-> 0]
  /\ pe \in [sections : RvaTables, addr : RvaAddrs, raw_data_len : {RvaBufferLen}]
  /\ out = NoOut

RvaMap ==
  /\ out = NoOut
  /\ out' = [kind |-> "rva",
             offset |-> mono_cli_rva_image_map(pe.sections, pe.addr)]
  /\ UNCHANGED <<images, maps, images_mutex, th, handed, pe>>

RvaSpec == RvaInit /\ [][RvaMap]_vars

\* section t contains the RVA a: virtual_address <= a < virtual_address +
\* raw_data_size, in exact arithmetic
SectionContains(t, a) ==
  /\ Le32(t.st_virtual_address, a)
  /\ ExactSumGt(t.st_virtual_address, t.st_raw_data_size, a)

Containing(tables, a) == {i \in 1..Len(tables) : SectionContains(tables[i], a)}

(***************************************************************************)
(* C14.  mono_cli_rva_image_map returns INVALID_ADDRESS exactly when no    *)
(* section contains the RVA; otherwise it returns                          *)
(* a - virtual_address + raw_data_ptr for the (first) section that         *)
(* contains it, and that offset is below the length of the buffer.         *)
(***************************************************************************)
C14_RvaMap ==
  out.kind = "rva" =>
    LET hit == Containing(pe.sections, pe.addr)
    IN  /\ (out.offset = INVALID_ADDRESS) <=> (hit = {})
        /\ hit # {} =>
             LET t == pe.sections[CHOOSE i \in hit : \A j \in hit : i <= j]
             IN  /\ out.offset =
                      Add32(Sub32(pe.addr, t.st_virtual_address), t.st_raw_data_ptr)
                 /\ Lt32(out.offset, pe.raw_data_len)

(***************************************************************************)
(* mono_image_load_module and mono_image_load_file_for_image on one parent *)
(* image.  The parent is image 1, opened from /a with either flag and held *)
(* by a caller; `pe' holds the two tables of its metadata the functions    *)
(* read (ModuleRef: names; File: name and flags), `out' its modules,       *)
(* modules_loaded and files arrays together with a record of the calls     *)
(* made so far (close_i is the loop variable of the parent's close).  The  *)
(* calls run one after another (Quiet).                                    *)
(***************************************************************************)
MaxModules == 2
MaxCalls == 2

FILE_CONTAINS_NO_METADATA == 1

FileRow(name, flags) == [name |-> name, flags |-> flags]

\* the names the rows of the two tables may carry; each names a sibling of /a
ModuleNames == {"b", "bad", "none"}

\* g_build_filename (g_path_get_dirname (image->name), name) for image /a
SiblingPath(name) == "/" \o name

ModuleRefTables == UNION { [1..n -> ModuleNames] : n \in 1..MaxModules }

FileTables ==
  { << >>,
    << FileRow("b", 0) >>,
    << FileRow("b", FILE_CONTAINS_NO_METADATA) >>,
    << FileRow("b", FILE_CONTAINS_NO_METADATA), FileRow("bad", 0) >>,
    << FileRow("none", 0), FileRow("b", 0) >> }

Parent == 1

ModInit ==
  \E refonly \in BOOLEAN :
    /\ images = << Loaded(NewFileImage("/a", refonly), FileAt("/a")) >>
    /\ loaded_images_hash =
         [k \in Keys |-> IF ~refonly /\ k \in {"/a", "asm1"} THEN Parent ELSE NULL]
    /\ loaded_images_refonly_hash =
         [k \in Keys |-> IF refonly /\ k \in {"/a", "asm1"} THEN Parent ELSE NULL]
    /\ loaded_images_guid_hash =
         [g \in Guids |-> IF ~refonly /\ g = "g1" THEN Parent ELSE NULL]
    /\ loaded_images_refonly_guid_hash =
         [g \in Guids |-> IF refonly /\ g = "g1" THEN Parent ELSE NULL]
    /\ images_mutex = NULL
    /\ th = [t \in Threads |-> IdleThread]
    /\ handed = [i \in ImageIds |-> IF i = Parent THEN 1 ELSE 0]
    /\ pe \in [moduleref : ModuleRefTables, files : FileTables]
    /\ out = [kind |-> "modules",
              modules |-> [n \in 1..Len(pe.moduleref) |-> NULL],
              modules_loaded |-> [n \in 1..Len(pe.moduleref) |-> FALSE],
              files |-> [n \in 1..Len(pe.files) |-> NULL],
              idx |-> 0,
              close_i |-> 0,
              ncalls |-> [n \in 1..Len(pe.moduleref) |-> 0],
              opens |-> [n \in 1..Len(pe.moduleref) |-> 0],
              first |-> [n \in 1..Len(pe.moduleref) |-> NULL],
              last |-> [n \in 1..Len(pe.moduleref) |-> NULL]]

\* a variant of the test below that accepts a name of any File row
ModuleIsValid_AnyRow(file, idx) ==
  \/ Len(file.files) = 0
  \/ \E i \in 1..Len(file.files) : file.files[i].name = file.moduleref[idx]

\* the test that decides whether the module may be opened: there is no File
\* table, or a File row not flagged CONTAINS_NO_METADATA carries the name
ModuleIsValid(file, idx) ==
  \/ Len(file.files) = 0
  \/ \E i \in 1..Len(file.files) :
       /\ file.files[i].flags # FILE_CONTAINS_NO_METADATA
       /\ file.files[i].name = file.moduleref[idx]

\* a variant that marks the slot only when the open succeeded
LoadedAfter_OnlyOnSuccess(res) == res # NULL

\* modules_loaded [idx - 1] = TRUE, whatever the open returned
LoadedAfter(res) == TRUE

\* the return of a call of mono_image_load_module for slot idx
ModuleReturn(o, idx, res) ==
  [o EXCEPT !.idx = 0,
            !.ncalls[idx] = @ + 1,
            !.first[idx] = IF o.ncalls[idx] = 0 THEN res ELSE @,
            !.last[idx] = res]

\* mono_image_load_module (image, idx): a slot already tried returns what it
\* holds; a name the File table rules out is recorded as tried and yields
\* NULL; otherwise the sibling is opened with the parent's flag
LoadModule(t, idx) ==
  /\ th[t].pc = "idle"
  /\ handed[Parent] > 0
  /\ out.kind = "modules" /\ out.idx = 0
  /\ idx \in 1..Len(pe.moduleref)
  /\ out.ncalls[idx] < MaxCalls
  /\ IF out.modules_loaded[idx]
     THEN /\ out' = ModuleReturn(out, idx, out.modules[idx])
          /\ UNCHANGED <<images_mutex, th>>
     ELSE IF ~ModuleIsValid(pe, idx)
     THEN /\ out' = ModuleReturn([out EXCEPT !.modules_loaded[idx] = LoadedAfter(NULL)],
                                 idx, out.modules[idx])
          /\ UNCHANGED <<images_mutex, th>>
     ELSE /\ images_mutex = NULL
          /\ MayAllocate
          /\ images_mutex' = t
          /\ th' = [th EXCEPT ![t] =
                      [IdleThread EXCEPT !.pc = "open_cs", !.op = "module",
                                         !.fname = SiblingPath(pe.moduleref[idx]),
                                         !.refonly = images[Parent].ref_only]]
          /\ out' = [out EXCEPT !.idx = idx, !.opens[idx] = @ + 1]
  /\ UNCHANGED <<images, maps, handed, pe>>

\* the open has returned: store the result, take the parent's second
\* reference on it, mark the slot as tried
LoadModuleFinish(t) ==
  /\ th[t].pc = "ret" /\ th[t].op = "module"
  /\ LET idx == out.idx
         res == th[t].res
     IN  /\ images' = IF res # NULL
                      THEN [images EXCEPT ![res].ref_count = @ + 1] ELSE images
         /\ out' = ModuleReturn([out EXCEPT !.modules[idx] = res,
                                            !.modules_loaded[idx] = LoadedAfter(res)],
                                idx, res)
  /\ th' = [th EXCEPT ![t] = IdleThread]
  /\ UNCHANGED <<maps, images_mutex, handed, pe>>

\* mono_image_load_file_for_image (image, fileidx): a slot already filled is
\* returned, otherwise the sibling is opened with mono_image_open
LoadFileForImage(t, fileidx) ==
  /\ th[t].pc = "idle"
  /\ handed[Parent] > 0
  /\ out.kind = "modules" /\ out.idx = 0
  /\ fileidx \in 1..Len(pe.files)
  /\ out.files[fileidx] = NULL
  /\ images_mutex = NULL
  /\ MayAllocate
  /\ images_mutex' = t
  /\ th' = [th EXCEPT ![t] =
              [IdleThread EXCEPT !.pc = "open_cs", !.op = "file",
                                 !.fname = SiblingPath(pe.files[fileidx].name),
                                 !.refonly = FALSE]]
  /\ out' = [out EXCEPT !.idx = fileidx]
  /\ UNCHANGED <<images, maps, handed, pe>>

\* only an image that opened is kept in files
LoadFileFinish(t) ==
  /\ th[t].pc = "ret" /\ th[t].op = "file"
  /\ out' = [out EXCEPT !.idx = 0,
                        !.files[out.idx] = IF th[t].res # NULL THEN th[t].res ELSE @]
  /\ th' = [th EXCEPT ![t] = IdleThread]
  /\ UNCHANGED <<images, maps, images_mutex, handed, pe>>

ModLoadModule(t) == Quiet(t) /\ \E idx \in 1..MaxModules : LoadModule(t, idx)
ModLoadFile(t) == Quiet(t) /\ \E fileidx \in 1..MaxModules : LoadFileForImage(t, fileidx)

ModNext ==
  \E t \in Threads :
    \/ ModLoadModule(t)
    \/ LoadModuleFinish(t)
    \/ ModLoadFile(t)
    \/ LoadFileFinish(t)
    \/ SeqOpenLookupStep(t)
    \/ SeqDoOpen(t)
    \/ SeqRegisterLock(t)
    \/ SeqRegisterStep(t)
    \/ SeqCloseDecrement(t)
    \/ SeqCloseLock(t)
    \/ SeqCloseUnregister(t)
    \/ SeqCloseFree(t)

ModSpec == ModInit /\ [][ModNext]_vars

(***************************************************************************)
(* C15: mono_image_load_module is idempotent per slot.  After a first call *)
(* for slot n the slot is marked as tried and at most one open was ever    *)
(* attempted for it, every later call returns what the first returned (the *)
(* same image, or NULL when the first open failed or the name was ruled    *)
(* out), and a later call changes nothing: no image, no registry entry, no *)
(* ref count, not the lock, not the slot and not its loaded bit.           *)
(***************************************************************************)
C15_State ==
  out.kind = "modules" =>
    \A n \in DOMAIN out.ncalls :
      /\ out.ncalls[n] >= 1 => (out.modules_loaded[n] /\ out.opens[n] <= 1)
      /\ out.ncalls[n] >= 2 => out.last[n] = out.first[n]

C15_LaterCall ==
  out.kind = "modules" =>
    \A n \in DOMAIN out.ncalls :
      ( /\ out.ncalls[n] >= 1
        /\ \/ out'.ncalls[n] # out.ncalls[n]
           \/ out'.opens[n] # out.opens[n] )
      => /\ UNCHANGED <<images, maps, images_mutex, th, handed>>
         /\ out'.modules = out.modules
         /\ out'.modules_loaded = out.modules_loaded
         /\ out'.opens = out.opens
         /\ out'.last[n] = out.first[n]

C15_LoadModuleIdempotent == []C15_State /\ [][C15_LaterCall]_vars

\* a second call has returned NULL for a slot whose only open failed, and a
\* second call has returned the image the first call loaded for another slot
C15_Witness ==
  /\ out.kind = "modules"
  /\ \E n \in DOMAIN out.ncalls :
       /\ out.ncalls[n] = 2 /\ out.opens[n] = 1
       /\ out.first[n] = NULL /\ out.last[n] = NULL
  /\ \E n \in DOMAIN out.ncalls :
       /\ out.ncalls[n] = 2 /\ out.opens[n] = 1
       /\ out.first[n] # NULL /\ out.last[n] = out.first[n]

(***************************************************************************)
(* mono_image_ensure_section_idx on the section table of one image.  `pe'  *)
(* holds the section tables and raw_data_len, `out' the cli_sections array *)
(* (for each section the offset of its mapped slice in the raw buffer, or  *)
(* unmapped) and, for each section, the number of calls made and what the  *)
(* first and the last of them returned.                                    *)
(***************************************************************************)
\* a section whose raw_data_ptr + raw_data_size is 2^32 + 256
WrapSection == Section(Small(24576), Small(512), U32(65535, 65280))

EnsureSections ==
  { Section(Small(8192), Small(2048), Small(512)), OtherSection, LongSection,
    OverlapSection, WrapSection }

EnsureTables == UNION { [1..n -> EnsureSections] : n \in 1..MaxSections }

NoSlice == [mapped |-> FALSE, ptr |-> Small(0)]
Slice(ptr) == [mapped |-> TRUE, ptr |-> ptr]

EnsureInit ==
  /\ images = << >>
  /\ loaded_images_hash = [k \in Keys |-> NULL]
  /\ loaded_images_refonly_hash = [k \in Keys |-> NULL]
  /\ loaded_images_guid_hash = [g \in Guids |-> NULL]
  /\ loaded_images_refonly_guid_hash = [g \in Guids |-> NULL]
  /\ images_mutex = NULL
  /\ th = [t \in Threads |-> IdleThread]
  /\ handed = [i \in ImageIds |-> 0]
  /\ pe \in [sections : EnsureTables, raw_data_len : {RvaBufferLen}]
  /\ out = [kind |-> "sections",
            cli_sections |-> [k \in 1..Len(pe.sections) |-> NoSlice],
            ncalls |-> [k \in 1..Len(pe.sections) |-> 0],
            first |-> [k \in 1..Len(pe.sections) |-> [ok |-> FALSE, slice |-> NoSlice]],
            last |-> [k \in 1..Len(pe.sections) |-> [ok |-> FALSE, slice |-> NoSlice]]]

\* the array after the call: a mapped section is left alone, an unmapped one
\* is mapped at raw_data + st_raw_data_ptr unless the 32-bit sum of pointer
\* and size is greater than raw_data_len
mono_image_ensure_section_idx(file, cli_sections, section) ==
  LET sect == file.sections[section]
  IN  IF cli_sections[section].mapped
      THEN cli_sections
      ELSE IF SumGt32(sect.st_raw_data_ptr, sect.st_raw_data_size, file.raw_data_len)
      THEN cli_sections
      ELSE [cli_sections EXCEPT ![section] = Slice(sect.st_raw_data_ptr)]

EnsureSectionIdx(section) ==
  /\ out.kind = "sections"
  /\ section \in 1..Len(pe.sections)
  /\ out.ncalls[section] < MaxCalls
  /\ LET after == mono_image_ensure_section_idx(pe, out.cli_sections, section)
         ret == [ok |-> after[section].mapped, slice |-> after[section]]
     IN  out' = [out EXCEPT !.cli_sections = after,
                            !.ncalls[section] = @ + 1,
                            !.first[section] = IF out.ncalls[section] = 0 THEN ret ELSE @,
                            !.last[section] = ret]
  /\ UNCHANGED <<images, maps, images_mutex, th, handed, pe>>

EnsureNext == \E section \in 1..MaxSections : EnsureSectionIdx(section)

EnsureSpec == EnsureInit /\ [][EnsureNext]_vars

(***************************************************************************)
(* C16: mono_image_ensure_section_idx is idempotent, and fails exactly     *)
(* when the section does not fit the buffer.  A second call for section k  *)
(* returns the success value and the slice of the first and changes no     *)
(* entry of cli_sections; the first call fails, leaving the section        *)
(* unmapped, exactly when raw_data_ptr + raw_data_size of section k is     *)
(* greater than raw_data_len.                                              *)
(***************************************************************************)
C16_Idempotent ==
  out.kind = "sections" =>
    \A k \in DOMAIN out.ncalls :
      out.ncalls[k] >= 2 => out.last[k] = out.first[k]

C16_FailsExactly ==
  out.kind = "sections" =>
    \A k \in DOMAIN out.ncalls :
      out.ncalls[k] >= 1 =>
        LET sect == pe.sections[k]
            beyond == ExactSumGt(sect.st_raw_data_ptr, sect.st_raw_data_size,
                                 pe.raw_data_len)
        IN  /\ out.first[k].ok <=> ~beyond
            /\ ~out.first[k].ok => out.cli_sections[k] = NoSlice
            /\ out.first[k].ok => out.cli_sections[k] = Slice(sect.st_raw_data_ptr)

C16_SecondCallFrame ==
  out.kind = "sections" =>
    \A k \in DOMAIN out.ncalls :
      (out.ncalls[k] >= 1 /\ out'.ncalls[k] # out.ncalls[k])
        => out'.cli_sections = out.cli_sections

C16_EnsureSection ==
  [](C16_Idempotent /\ C16_FailsExactly) /\ [][C16_SecondCallFrame]_vars

(***************************************************************************)
(* mono_pe_file_open (fname, status): do_mono_image_open (fname, status,   *)
(* FALSE, FALSE).  No lookup precedes the load and register_image is not   *)
(* called; with care_about_cli FALSE the loader stops after the section    *)
(* tables, so the image has no GUID and no assembly name.  A load that     *)
(* fails closes the image like any other.                                  *)
(***************************************************************************)
NewPEImage(fname) == [NewFileImage(fname, FALSE) EXCEPT !.kind = "pe"]

PEFileOpen(t, fname) ==
  /\ th[t].pc = "idle"
  /\ MayAllocate
  /\ LET call == [th EXCEPT ![t] = [IdleThread EXCEPT !.op = "pe", !.fname = fname]]
     IN  IF ~FileExists(fname)
         THEN /\ th' = [call EXCEPT ![t].pc = "ret", ![t].res = NULL,
                                    ![t].status = "ERROR_ERRNO"]
              /\ UNCHANGED images
         ELSE \E bits \in SizeTBits :
                \E o \in LoadOutcomes(FileAt(fname), FALSE, bits) :
                  /\ images' = Append(images, NewPEImage(fname))
                  /\ th' = CASE o.kind = "return" /\ o.image ->
                                  [call EXCEPT ![t].pc = "ret",
                                               ![t].res = Len(images) + 1,
                                               ![t].status = "OK"]
                             [] o.kind = "return" /\ ~o.image ->
                                  [call EXCEPT ![t].pc = "close_dec",
                                               ![t].image = Len(images) + 1,
                                               ![t].cont = "load",
                                               ![t].status = "IMAGE_INVALID"]
                             [] OTHER -> Halted
  /\ UNCHANGED <<maps, images_mutex, handed, pe, out>>

\* callers open files with either function and close what they hold, one
\* call after another
SeqPEFileOpen(t) == Quiet(t) /\ \E fname \in Paths : PEFileOpen(t, fname)

PENext ==
  \E t \in Threads :
    \/ SeqPEFileOpen(t)
    \/ SeqOpen(t)
    \/ SeqOpenLookupStep(t)
    \/ SeqDoOpen(t)
    \/ SeqRegisterLock(t)
    \/ SeqRegisterStep(t)
    \/ SeqCloseDecrement(t)
    \/ SeqCloseLock(t)
    \/ SeqCloseUnregister(t)
    \/ SeqCloseFree(t)
    \/ SeqReturn(t)
    \/ SeqClose(t)

PESpec == Init /\ [][PENext]_vars

(***************************************************************************)
(* C17: mono_pe_file_open bypasses the registry.  An image it made is in   *)
(* none of the four tables and is never the result of mono_image_open_full *)
(* (hence of no lookup, which return table entries), and no step of the    *)
(* call itself, of the close of an image it made, or of the close that     *)
(* ends a failed call changes any of the four tables, whatever is          *)
(* registered at the time.                                                 *)
(***************************************************************************)
PEImage(i) == i \in Allocated /\ images[i].kind = "pe"

C17_NotRegistered ==
  \A i \in ImageIds :
    PEImage(i) =>
      /\ \A m \in AllTables : i \notin Range(m)
      /\ \A t \in Threads : th[t].op = "open" => th[t].res # i

\* the steps of a call of mono_pe_file_open and of a close of its image
C17_StepOfPE(t) ==
  /\ th'[t] # th[t]
  /\ \/ th[t].op = "pe" \/ th'[t].op = "pe"
     \/ th[t].op = "close" /\ PEImage(th[t].image)

C17_Frame == \A t \in Threads : C17_StepOfPE(t) => UNCHANGED maps

C17_BypassesRegistry == []C17_NotRegistered /\ [][C17_Frame]_vars

(***************************************************************************)
(* The registry lock.  Threads open /a or /bad, close what they hold, and  *)
(* ask the registry with mono_image_loaded_full and mono_image_loaded_by_  *)
(* guid_full.  A lookup is lock, g_hash_table_lookup, unlock; the pointer  *)
(* it returns is not a reference.                                          *)
(***************************************************************************)
LockPaths == {"/a", "/bad"}
LockGuids == {"g1"}

LoadedFull(t, name, refonly) ==
  /\ th[t].pc = "idle"
  /\ images_mutex = NULL
  /\ images_mutex' = t
  /\ th' = [th EXCEPT ![t] = [IdleThread EXCEPT !.pc = "loaded_cs", !.op = "loaded",
                                                !.fname = name, !.refonly = refonly]]
  /\ UNCHANGED <<images, maps, handed, pe, out>>

LoadedByGuidFull(t, guid, refonly) ==
  /\ th[t].pc = "idle"
  /\ images_mutex = NULL
  /\ images_mutex' = t
  /\ th' = [th EXCEPT ![t] = [IdleThread EXCEPT !.pc = "loaded_cs", !.op = "by_guid",
                                                !.fname = guid, !.refonly = refonly]]
  /\ UNCHANGED <<images, maps, handed, pe, out>>

\* the critical section of either lookup
LoadedLookupStep(t) ==
  /\ th[t].pc = "loaded_cs"
  /\ LET res == IF th[t].op = "loaded"
                THEN mono_image_loaded_full(th[t].fname, th[t].refonly)
                ELSE mono_image_loaded_by_guid_full(th[t].fname, th[t].refonly)
     IN  th' = [th EXCEPT ![t].pc = "ret", ![t].res = res]
  /\ images_mutex' = NULL
  /\ UNCHANGED <<images, maps, handed, pe, out>>

\* the caller has the pointer; no reference was taken
LoadedReturn(t) ==
  /\ th[t].pc = "ret"
  /\ th[t].op \in {"loaded", "by_guid"}
  /\ th' = [th EXCEPT ![t] = IdleThread]
  /\ UNCHANGED <<images, maps, images_mutex, handed, pe, out>>

LockOpen(t) == \E fname \in LockPaths : Open(t, fname, FALSE)
LockLoaded(t) == \E name \in LockPaths, refonly \in BOOLEAN : LoadedFull(t, name, refonly)
LockLoadedByGuid(t) ==
  \E guid \in LockGuids, refonly \in BOOLEAN : LoadedByGuidFull(t, guid, refonly)
LockOpenReturn(t) == th[t].op = "open" /\ Return(t)
LockClose(t) == \E image \in ImageIds : Close(t, image)

LockNext ==
  \E t \in Threads :
    \/ LockOpen(t)
    \/ OpenLookupStep(t)
    \/ DoOpen(t)
    \/ RegisterLock(t)
    \/ RegisterStep(t)
    \/ LockOpenReturn(t)
    \/ LockClose(t)
    \/ CloseDecrement(t)
    \/ CloseLock(t)
    \/ CloseUnregister(t)
    \/ CloseFree(t)
    \/ Fault(t)
    \/ LockLoaded(t)
    \/ LockLoadedByGuid(t)
    \/ LoadedLookupStep(t)
    \/ LoadedReturn(t)

LockSpec == Init /\ [][LockNext]_vars

(***************************************************************************)
(* C18: the registry lock is never held during file I/O or parsing.  A     *)
(* thread holds the lock only inside the critical section of open, of      *)
(* register_image, of a lookup or of close: never while it parses          *)
(* (do_mono_image_open), never when it enters mono_image_close and never   *)
(* while it frees an image.  The step a thread takes inside a critical     *)
(* section releases the lock on every path and touches only the tables and *)
(* a reference count: it allocates and frees nothing and hands no          *)
(* reference out.  The lock is taken only when it is free.  Nothing is     *)
(* said of a process that a g_assert or a fault has stopped.               *)
(***************************************************************************)
CriticalSections == {"open_cs", "reg_cs", "loaded_cs", "close_cs"}

C18_State ==
  Alive => \A t \in Threads : images_mutex = t => th[t].pc \in CriticalSections

C18_CriticalSection ==
  \A t \in Threads :
    /\ (images_mutex = t /\ th'[t] # th[t] /\ th'[t].pc # "halted") =>
         /\ images_mutex' = NULL
         /\ handed' = handed
         /\ Len(images') = Len(images)
         /\ \A i \in Allocated :
              images'[i] = [images[i] EXCEPT !.ref_count = images'[i].ref_count]
    /\ (images_mutex # t /\ images_mutex' = t) => images_mutex = NULL

C18_LockNotHeldOverParse == []C18_State /\ [][C18_CriticalSection]_vars

\* one thread is back in the lock to register the image it has parsed while
\* another is parsing
C18_Witness ==
  \E t, u \in Threads :
    /\ t # u
    /\ th[t].pc = "open_parse"
    /\ th[u].pc = "reg_cs" /\ images_mutex = u

(***************************************************************************)
(* mono_image_lookup_resource and mono_image_walk_resource_tree.  `pe'     *)
(* holds the resource directory of one image as a tree (every entry with   *)
(* its name_is_string and is_dir bits, its name_offset, and either the     *)
(* entries of its sub-directory or the rde_data_offset of its data entry)  *)
(* together with the arguments of the call; `out' the records the calls    *)
(* have allocated and what each call returned.  The offsets of the tree    *)
(* lie inside the mapped section.                                          *)
(***************************************************************************)
MaxEntries == 2

ResEntry(is_string, name_offset, is_dir, sub, data) ==
  [name_is_string |-> is_string, name_offset |-> name_offset, is_dir |-> is_dir,
   sub |-> sub, rde_data_offset |-> data]

IdLeaf(id, data) == ResEntry(FALSE, id, FALSE, << >>, data)
NamedLeaf(name_offset, data) == ResEntry(TRUE, name_offset, FALSE, << >>, data)
IdDir(id, sub) == ResEntry(FALSE, id, TRUE, sub, 0)
NamedDir(name_offset, sub) == ResEntry(TRUE, name_offset, TRUE, sub, 0)

\* the resource types and languages of the model
ResIds == {3, 14}
LangIds == {9, 12}

SeqsUpTo(S, n) == UNION { [1..k -> S] : k \in 0..n }

\* language entries: data leaves keyed by id or by name, and directories
\* where the format has leaves (an empty one, and one with an entry)
LangEntries ==
  { IdLeaf(9, 100), IdLeaf(12, 200), NamedLeaf(9, 300),
    IdDir(9, << >>), IdDir(9, << IdLeaf(9, 400) >>) }

\* name entries: directories of language entries keyed either way, and a
\* data leaf where the format has a directory
NameEntries ==
  { IdDir(1, sub) : sub \in SeqsUpTo(LangEntries, MaxEntries) }
    \cup { NamedDir(1, << IdLeaf(9, 500) >>), IdLeaf(1, 600) }

\* type entries
TypeEntries ==
  { IdDir(3, sub) : sub \in SeqsUpTo(NameEntries, MaxEntries) \ { << >> } }
    \cup { IdDir(3, << >>), IdLeaf(3, 700) }

OtherType == IdDir(14, << IdDir(1, << IdLeaf(9, 800) >>) >>)
NamedType == NamedDir(3, << IdDir(1, << IdLeaf(9, 900) >>) >>)
PlainType == IdDir(3, << IdDir(1, << IdLeaf(12, 1000), IdLeaf(9, 1100) >>) >>)

ResourceDirs ==
  UNION { { << e >>, << OtherType, e >>, << NamedType, e >>, << e, PlainType >> } :
          e \in TypeEntries }

NullEntry == [kind |-> "null", rde_data_offset |-> 0]
DataEntry(data) == [kind |-> "entry", rde_data_offset |-> data]
AssertNotReached == [kind |-> "abort", rde_data_offset |-> 0]

RECURSIVE mono_image_walk_resource_tree(_, _, _, _)
RECURSIVE WalkEntries(_, _, _, _, _)

\* the loop over the entries of a directory: the first result that is not
\* NULL is returned; a g_assert ends the walk
WalkEntries(entries, i, res_id, lang_id, level) ==
  IF i > Len(entries)
  THEN NullEntry
  ELSE LET ret == mono_image_walk_resource_tree(res_id, lang_id, entries[i], level)
       IN  IF ret.kind # "null"
           THEN ret
           ELSE WalkEntries(entries, i + 1, res_id, lang_id, level)

mono_image_walk_resource_tree(res_id, lang_id, entry, level) ==
  LET is_string == entry.name_is_string
      name_offset == entry.name_offset
      rejected ==
        CASE level = 0 -> (~is_string /\ name_offset # res_id) \/ is_string
          [] level = 1 -> FALSE
          [] level = 2 -> (~is_string /\ name_offset # lang_id /\ lang_id # 0)
                            \/ is_string
          [] OTHER -> FALSE
  IN  IF level > 2
      THEN AssertNotReached
      ELSE IF rejected
      THEN NullEntry
      ELSE IF entry.is_dir
      THEN WalkEntries(entry.sub, 1, res_id, lang_id, level + 1)
      ELSE DataEntry(entry.rde_data_offset)

\* mono_image_rva_map of the resource directory's RVA found no section: NULL
mono_image_lookup_resource(file, res_id, lang_id) ==
  IF ~file.rsrc_mapped
  THEN NullEntry
  ELSE WalkEntries(file.resource_dir, 1, res_id, lang_id, 0)

ResInit ==
  /\ images = << >>
  /\ loaded_images_hash = [k \in Keys |-> NULL]
  /\ loaded_images_refonly_hash = [k \in Keys |-> NULL]
  /\ loaded_images_guid_hash = [g \in Guids |-> NULL]
  /\ loaded_images_refonly_guid_hash = [g \in Guids |-> NULL]
  /\ images_mutex = NULL
  /\ th = [t \in Threads |-> IdleThread]
  /\ handed = [i \in ImageIds |-> 0]
  /\ pe \in [resource_dir : ResourceDirs, rsrc_mapped : BOOLEAN,
             res_id : {3}, lang_id : LangIds \cup {0}]
  /\ out = [kind |-> "resource", allocated |-> 0, returned |-> << >>]

\* one call; a hit is returned in a record from g_new0
LookupResource ==
  /\ out.kind = "resource"
  /\ Len(out.returned) < MaxCalls
  /\ \A k \in DOMAIN out.returned : out.returned[k].kind # "abort"
  /\ LET ret == mono_image_lookup_resource(pe, pe.res_id, pe.lang_id)
         res == IF ret.kind = "entry" THEN out.allocated + 1 ELSE NULL
     IN  out' = [out EXCEPT !.allocated = IF ret.kind = "entry" THEN @ + 1 ELSE @,
                            !.returned = Append(@, [kind |-> ret.kind,
                                                    rde_data_offset |-> ret.rde_data_offset,
                                                    record |-> res])]
  /\ UNCHANGED <<images, maps, images_mutex, th, handed, pe>>

ResSpec == ResInit /\ [][LookupResource]_vars

(***************************************************************************)
(* C19: mono_image_lookup_resource returns the first qualifying leaf in    *)
(* document order.  A leaf qualifies when it is a data entry at level 2,   *)
(* keyed by an id that is lang_id (any id when lang_id is 0), under any    *)
(* directory entry at level 1, under a directory entry at level 0 keyed by *)
(* the id res_id.  Every call returns the data entry of the first such     *)
(* leaf in a record of its own, and NULL when there is none.               *)
(***************************************************************************)
QualifyingLeaves(file) ==
  IF ~file.rsrc_mapped
  THEN {}
  ELSE { p \in (1..MaxEntries) \X (1..MaxEntries) \X (1..MaxEntries) :
           /\ p[1] <= Len(file.resource_dir)
           /\ LET e0 == file.resource_dir[p[1]]
              IN  /\ ~e0.name_is_string /\ e0.name_offset = file.res_id /\ e0.is_dir
                  /\ p[2] <= Len(e0.sub)
                  /\ LET e1 == e0.sub[p[2]]
                     IN  /\ e1.is_dir
                         /\ p[3] <= Len(e1.sub)
                         /\ LET e2 == e1.sub[p[3]]
                            IN  /\ ~e2.name_is_string
                                /\ e2.name_offset = file.lang_id \/ file.lang_id = 0
                                /\ ~e2.is_dir }

Before(p, q) ==
  \/ p[1] < q[1]
  \/ p[1] = q[1] /\ p[2] < q[2]
  \/ p[1] = q[1] /\ p[2] = q[2] /\ p[3] <= q[3]

FirstLeaf(file) ==
  LET p == CHOOSE q \in QualifyingLeaves(file) :
             \A r \in QualifyingLeaves(file) : Before(q, r)
  IN  file.resource_dir[p[1]].sub[p[2]].sub[p[3]]

C19_LookupResource ==
  out.kind = "resource" =>
    \A k \in DOMAIN out.returned :
      LET ret == out.returned[k]
      IN  /\ IF QualifyingLeaves(pe) = {}
             THEN ret.kind = "null"
             ELSE /\ ret.kind = "entry"
                  /\ ret.rde_data_offset = FirstLeaf(pe).rde_data_offset
          /\ ret.kind = "entry" =>
               /\ ret.record # NULL
               /\ \A j \in DOMAIN out.returned :
                    j # k => out.returned[j].record # ret.record

(***************************************************************************)
(* C20: a sub-image is opened with the parent's ref_only flag.  Every      *)
(* image that mono_image_load_module or mono_image_load_file_for_image has *)
(* stored in a slot of the parent carries the parent's flag and is in no   *)
(* path table and no GUID table of the other flag.                         *)
(***************************************************************************)
SubImages ==
  (Range(out.modules) \cup Range(out.files)) \ {NULL}

WithParentsFlag(i) ==
  /\ images[i].ref_only = images[Parent].ref_only
  /\ i \notin Range(PathTable(~images[Parent].ref_only))
  /\ i \notin Range(GuidTable(~images[Parent].ref_only))

C20_SubImageFlag ==
  out.kind = "modules" => \A i \in SubImages : WithParentsFlag(i)

(***************************************************************************)
(* C21: what the close of the last reference leaves in the registry.  When *)
(* the critical section of mono_image_close has run for an image I that    *)
(* was registered under its name, I is under no key of the path table of   *)
(* its flag and is not the entry of its GUID in the GUID table of its      *)
(* flag, and that entry is an image of the same GUID that is still in the  *)
(* path table of the flag if there is one, and NULL otherwise.             *)
(***************************************************************************)
C21_Unregistered(I) ==
  LET flag == images[I].ref_only
      guid == images[I].guid
      left == {j \in Range(PathTable(flag)') \ {NULL} : images[j].guid = guid}
  IN  /\ I \notin Range(PathTable(flag)')
      /\ GuidTable(flag)'[guid] # I
      /\ IF left = {}
         THEN mono_image_loaded_by_guid_full(guid, flag)' = NULL
         ELSE mono_image_loaded_by_guid_full(guid, flag)' \in left

C21_LastClose ==
  \A t \in Threads :
    ( /\ th[t].pc = "close_cs" /\ th'[t].pc = "close_free"
      /\ IsRegistered(PathTable(images[th[t].image].ref_only), th[t].image) )
    => C21_Unregistered(th[t].image)

C21_CloseUnregisters == [][C21_LastClose]_vars

(***************************************************************************)
(* load_tables on the header of one tables stream.  `pe' holds the offset  *)
(* of the stream in the metadata (heap_tables.data), the set bits of       *)
(* valid_mask and the 32-bit words that follow the two masks; `out' the    *)
(* rows field of every table up to MONO_TABLE_LAST and tables_base.        *)
(***************************************************************************)
MONO_TABLE_LAST == 44
TableBits == 64

\* the mask bits the streams of the model may set
MaskBits == {0, 2, 32, MONO_TABLE_LAST, MONO_TABLE_LAST + 1, TableBits - 1}

RowWords == { <<11, 12, 13, 14, 15, 16>>, <<7, 0, 7, 0, 7, 0>> }

TablesInit ==
  /\ images = << >>
  /\ loaded_images_hash = [k \in Keys |-> NULL]
  /\ loaded_images_refonly_hash = [k \in Keys |-> NULL]
  /\ loaded_images_guid_hash = [g \in Guids |-> NULL]
  /\ loaded_images_refonly_guid_hash = [g \in Guids |-> NULL]
  /\ images_mutex = NULL
  /\ th = [t \in Threads |-> IdleThread]
  /\ handed = [i \in ImageIds |-> 0]
  /\ pe \in [heap_tables : {108, 2048}, valid_mask : SUBSET MaskBits, rows : RowWords]
  /\ out = NoOut

\* a variant of the step below: the pointer moves on for defined tables only
NextRow_DefinedOnly(table, valid) ==
  IF table > MONO_TABLE_LAST THEN valid ELSE valid + 1

\* rows++; valid++ after every set bit
NextRow(table, valid) == valid + 1

RECURSIVE LoadTablesLoop(_, _, _, _)
\* the loop over the 64 bits: `valid' counts the words consumed so far and
\* is the index of the word `rows' points at
LoadTablesLoop(file, table, valid, tables) ==
  IF table >= TableBits
  THEN [rows |-> tables, valid |-> valid]
  ELSE IF table \notin file.valid_mask
  THEN LoadTablesLoop(file, table + 1, valid,
                      IF table > MONO_TABLE_LAST
                      THEN tables ELSE [tables EXCEPT ![table] = 0])
  ELSE LoadTablesLoop(file, table + 1, NextRow(table, valid),
                      IF table > MONO_TABLE_LAST
                      THEN tables ELSE [tables EXCEPT ![table] = file.rows[valid + 1]])

\* before the loop the rows fields are those of g_new0
LoadTables ==
  /\ out = NoOut
  /\ LET r == LoadTablesLoop(pe, 0, 0, [t \in 0..MONO_TABLE_LAST |-> 0])
     IN  out' = [kind |-> "tables", rows |-> r.rows,
                 tables_base |-> (pe.heap_tables + 24) + (4 * r.valid)]
  /\ UNCHANGED <<images, maps, images_mutex, th, handed, pe>>

TablesSpec == TablesInit /\ [][LoadTables]_vars

(***************************************************************************)
(* C22: load_tables gives every table up to the last defined one the row   *)
(* count stored at position k of the row-count array, k being the number   *)
(* of valid_mask bits set below the table, and 0 when the table's bit is   *)
(* clear; a set bit above the last defined table takes one word, whose     *)
(* value is not used; tables_base is the start of the stream + 24 + 4 *    *)
(* the number of set bits.                                                 *)
(***************************************************************************)
SetBelow(file, t) == Cardinality({b \in file.valid_mask : b < t})

C22_RowCounts ==
  out.kind = "tables" =>
    /\ \A t \in 0..MONO_TABLE_LAST :
         out.rows[t] = IF t \in pe.valid_mask
                       THEN pe.rows[SetBelow(pe, t) + 1] ELSE 0
    /\ out.tables_base = pe.heap_tables + 24 + 4 * Cardinality(pe.valid_mask)

\* a stream with a clear bit below a set one, and a set bit above the last
\* defined table followed by another
C22_Witness ==
  /\ out.kind = "tables"
  /\ 0 \notin pe.valid_mask /\ 2 \in pe.valid_mask
  /\ MONO_TABLE_LAST \in pe.valid_mask
  /\ MONO_TABLE_LAST + 1 \in pe.valid_mask /\ TableBits - 1 \in pe.valid_mask
  /\ out.rows[MONO_TABLE_LAST] = pe.rows[3]

(***************************************************************************)
(* C23: mono_image_load_module opens the module exactly when the File      *)
(* table allows it.  An open is attempted for slot n if and only if the    *)
(* File table is empty or some File row that is not flagged                *)
(* CONTAINS_NO_METADATA carries the name of ModuleRef row n; after a call  *)
(* for a name that is ruled out no open was attempted, the slot is NULL    *)
(* and it is marked as loaded.                                             *)
(***************************************************************************)
NamedByFileTable(file, n) ==
  \E row \in Range(file.files) :
    row.name = file.moduleref[n] /\ row.flags # FILE_CONTAINS_NO_METADATA

C23_OpenIffValid ==
  out.kind = "modules" =>
    \A n \in DOMAIN out.ncalls :
      LET allowed == pe.files = << >> \/ NamedByFileTable(pe, n)
      IN  /\ out.opens[n] > 0 => allowed
          /\ out.ncalls[n] > 0 =>
               /\ allowed => out.opens[n] > 0
               /\ ~allowed => /\ out.opens[n] = 0
                              /\ out.modules[n] = NULL
                              /\ out.modules_loaded[n]

\* one name was ruled out by a flagged row of its name, another was opened
\* because an unflagged row carries it
C23_Witness ==
  /\ out.kind = "modules"
  /\ \E n \in DOMAIN out.ncalls :
       /\ out.ncalls[n] > 0 /\ out.opens[n] = 0
       /\ \E row \in Range(pe.files) : row.name = pe.moduleref[n]
  /\ \E n \in DOMAIN out.ncalls :
       /\ out.ncalls[n] > 0 /\ out.opens[n] > 0
       /\ pe.files # << >>

(***************************************************************************)
(* C24: no image is destroyed under a caller that holds it.  While a       *)
(* caller holds a reference that mono_image_open_full returned and has not *)
(* passed it to mono_image_close, the image has not been freed and is      *)
(* still in the path table of its flag, whatever closes, opens and         *)
(* registrations of the same path the other threads run meanwhile.         *)
(***************************************************************************)
C24_NotDestroyedWhileHeld ==
  \A i \in Allocated :
    (images[i].kind = "file" /\ handed[i] > 0) =>
      /\ images[i].freed = 0
      /\ i \in Range(PathTable(images[i].ref_only))

(***************************************************************************)
(* The close of the parent.  The caller passes its reference to the parent *)
(* to mono_image_close; once the parent is out of the registry the loop    *)
(* over its modules calls mono_image_close once for every slot that is not *)
(* NULL, and then the parent is freed.  The images in files are not        *)
(* closed: only the array is freed.                                        *)
(***************************************************************************)
CloseParent(t) ==
  /\ out.kind = "modules" /\ out.idx = 0
  /\ Close(t, Parent)

\* one turn of the loop: for (i = 0; i < module_count; ++i)
CloseModule(t) ==
  /\ th[t].pc = "close_free" /\ th[t].image = Parent
  /\ out.close_i < Len(out.modules)
  /\ LET module == out.modules[out.close_i + 1]
     IN  th' = IF module # NULL
               THEN [th EXCEPT ![t].pc = "close_dec", ![t].image = module,
                               ![t].image2 = Parent, ![t].cont = "module"]
               ELSE th
  /\ out' = [out EXCEPT !.close_i = @ + 1]
  /\ UNCHANGED <<images, maps, images_mutex, handed, pe>>

\* the parent itself is freed after the loop
CloseFreeAfterModules(t) ==
  /\ th[t].image = Parent => out.close_i = Len(out.modules)
  /\ CloseFree(t)

UnloadCloseParent(t) == Quiet(t) /\ CloseParent(t)
UnloadCloseModule(t) == Quiet(t) /\ CloseModule(t)
UnloadCloseFree(t) == Quiet(t) /\ CloseFreeAfterModules(t)

UnloadNext ==
  \E t \in Threads :
    \/ ModLoadModule(t)
    \/ LoadModuleFinish(t)
    \/ ModLoadFile(t)
    \/ LoadFileFinish(t)
    \/ SeqOpenLookupStep(t)
    \/ SeqDoOpen(t)
    \/ SeqRegisterLock(t)
    \/ SeqRegisterStep(t)
    \/ UnloadCloseParent(t)
    \/ SeqCloseDecrement(t)
    \/ SeqCloseLock(t)
    \/ SeqCloseUnregister(t)
    \/ UnloadCloseModule(t)
    \/ UnloadCloseFree(t)

UnloadSpec == ModInit /\ [][UnloadNext]_vars

(***************************************************************************)
(* C25: destroying a parent releases the references it took on its         *)
(* modules.  Once the parent has been destroyed, every image that is in a  *)
(* slot of modules and was opened by nothing but mono_image_load_module of *)
(* that parent has ref_count 0, has been destroyed and is in no table.     *)
(***************************************************************************)
ParentDestroyed ==
  /\ images[Parent].freed > 0
  /\ \A t \in Threads : th[t].pc = "idle"

OnlyModules == Range(out.modules) \ ({NULL} \cup Range(out.files))

C25_ModulesReleased ==
  (out.kind = "modules" /\ ParentDestroyed) =>
    \A m \in OnlyModules :
      /\ images[m].ref_count = 0
      /\ images[m].freed = 1
      /\ \A table \in AllTables : m \notin Range(table)

(***************************************************************************)
(* C26: the walker never goes below level 2.  No call of                   *)
(* mono_image_lookup_resource enters mono_image_walk_resource_tree with a  *)
(* level above 2, so none ends at g_assert_not_reached, also for a tree    *)
(* whose level-2 entry has its is_dir bit set.                             *)
(***************************************************************************)
C26_NeverBelowLevel2 ==
  out.kind = "resource" =>
    \A k \in DOMAIN out.returned : out.returned[k].kind # AssertNotReached.kind

====
